---- MODULE Spec2Model ----
(***************************************************************************)
(* Substring search (Boyer-Moore with the last-aligned-unit shift, KMP,    *)
(* Rabin-Karp) of task_03.py and the float binary search of task_02.py.    *)
(*                                                                         *)
(* A text or pattern is a sequence of one-character strings; Python's       *)
(* 0-based s[k] is s[k + 1] here.  A call that has not returned holds the   *)
(* empty sequence in ret, a call that returned v holds <<v>>; Python's None *)
(* is the empty sequence in upper_bound.                                   *)
(***************************************************************************)
EXTENDS Integers, Sequences, FiniteSets, TLC

VARIABLES entry, pc, fault, text, pattern, ret,
          shift_table, bm_i,
          lps, length, lps_i,
          kmp_i, kmp_j,
          substring_hash, current_slice_hash, h_multiplier, rk_i,
          arr, x, low, high, iterations, upper_bound

vars == <<entry, pc, fault, text, pattern, ret, shift_table, bm_i,
          lps, length, lps_i, kmp_i, kmp_j,
          substring_hash, current_slice_hash, h_multiplier, rk_i,
          arr, x, low, high, iterations, upper_bound>>

bm_vars == <<shift_table, bm_i>>
lps_vars == <<lps, length, lps_i>>
kmp_vars == <<kmp_i, kmp_j>>
rk_vars == <<substring_hash, current_slice_hash, h_multiplier, rk_i>>
bs_vars == <<arr, x, low, high, iterations, upper_bound>>

(***************************************************************************)
(* Bounds of the inputs.                                                   *)
(***************************************************************************)
MaxTextLen == 5
MaxPatLen == 3
MaxLpsLen == 6
MaxFairTextLen == 3
MaxFairPatLen == 3
MaxArrLen == 4
MaxVal == 3

\* Units of the bounded texts: ord("o") = 111 and ord("\n") = 10 are equal
\* modulo 101, so windows that differ in content can have equal hashes.
Alphabet == {"a", "o", "\n"}
LpsAlphabet == {"a", "o"}

SeqsUpTo(S, n) == UNION {[1..k -> S] : k \in 0..n}

ord ==
    [c \in Alphabet \cup {"A", "B", "C", "D"} |->
        CASE c = "a" -> 97
          [] c = "o" -> 111
          [] c = "\n" -> 10
          [] c = "A" -> 65
          [] c = "B" -> 66
          [] c = "C" -> 67
          [] c = "D" -> 68]

\* The scenario kmp_search("ABABDABACDABABCABAB", "ABABCABAB").
ScenarioText ==
    <<"A","B","A","B","D","A","B","A","C","D","A","B","A","B","C","A","B","A","B">>
ScenarioPattern == <<"A","B","A","B","C","A","B","A","B">>

algorithms == {"boyer_moore", "kmp", "rabin_karp"}

(***************************************************************************)
(* Python primitives.                                                      *)
(***************************************************************************)
EmptyDict == [c \in {} |-> 0]

dict_set(table, key, value) ==
    [c \in (DOMAIN table) \cup {key} |-> IF c = key THEN value ELSE table[c]]

setdefault_overwrite(table, key, value) == dict_set(table, key, value)

setdefault(table, key, value) ==
    IF key \in DOMAIN table THEN table ELSE dict_set(table, key, value)

dict_get(table, key, default) ==
    IF key \in DOMAIN table THEN table[key] ELSE default

\* pow(base, e) % modulus on Python's unbounded integers, by repeated
\* multiplication modulo modulus (the same number, without 256^e itself).
RECURSIVE pow_mod(_, _, _)
pow_mod(b, e, m) ==
    IF e = 0 THEN 1 % m
    ELSE ((b % m) * pow_mod(b, e - 1, m)) % m

(***************************************************************************)
(* build_shift_table                                                       *)
(***************************************************************************)
RECURSIVE shift_loop(_, _, _, _)
shift_loop(pat, last, index, table) ==
    IF index >= last THEN table
    ELSE shift_loop(pat, last, index + 1,
                    dict_set(table, pat[index + 1], Len(pat) - index - 1))

\* enumerate(pattern) in place of enumerate(pattern[:-1])
build_shift_table_whole(pat) ==
    setdefault(shift_loop(pat, Len(pat), 0, EmptyDict), pat[Len(pat)], Len(pat))

\* table[pattern[-1]] = length in place of setdefault
build_shift_table_overwrite(pat) ==
    setdefault_overwrite(shift_loop(pat, Len(pat) - 1, 0, EmptyDict),
                         pat[Len(pat)], Len(pat))

build_shift_table(pat) ==
    setdefault(shift_loop(pat, Len(pat) - 1, 0, EmptyDict), pat[Len(pat)], Len(pat))

(***************************************************************************)
(* boyer_moore_search                                                      *)
(***************************************************************************)
\* the inner while: the value of j when it stops
RECURSIVE bm_scan(_, _, _, _)
bm_scan(txt, pat, i, j) ==
    IF j >= 0 /\ txt[i + j + 1] = pat[j + 1] THEN bm_scan(txt, pat, i, j - 1)
    ELSE j

bm_shift(table, txt, pat, i) ==
    dict_get(table, txt[i + Len(pat) - 1 + 1], Len(pat))

(***************************************************************************)
(* polynomial_hash                                                         *)
(***************************************************************************)
RECURSIVE hash_loop(_, _, _, _, _)
hash_loop(s, i, hash_value, b, m) ==
    IF i >= Len(s) THEN hash_value
    ELSE hash_loop(s, i + 1,
                   (hash_value + ord[s[i + 1]] * pow_mod(b, Len(s) - i - 1, m)) % m,
                   b, m)

polynomial_hash(s, b, m) == hash_loop(s, 0, 0, b, m)

(***************************************************************************)
(* rabin_karp_search                                                       *)
(***************************************************************************)
base == 256
modulus == 101

\* the subtraction without the multiplier base^(m-1)
roll_hash_no_multiplier(h, old, new, hm) ==
    LET h1 == (h - ord[old]) % modulus
        h2 == (h1 * base + ord[new]) % modulus
    IN  IF h2 < 0 THEN h2 + modulus ELSE h2

\* lines 133-140: remove text[i], append text[i + substring_length]
roll_hash(h, old, new, hm) ==
    LET h1 == (h - ord[old] * hm) % modulus
        h2 == (h1 * base + ord[new]) % modulus
    IN  IF h2 < 0 THEN h2 + modulus ELSE h2

\* a match declared on hash equality alone
slice_unverified(txt, i, pat) == TRUE

\* text[i : i + substring_length] == pattern
slice_equals(txt, i, pat) == SubSeq(txt, i + 1, i + Len(pat)) = pat

(***************************************************************************)
(* compute_lps and kmp_search                                              *)
(***************************************************************************)
lps_fallback_reset(l, len) == 0

\* length = lps[length - 1]
lps_fallback(l, len) == l[len - 1 + 1]

kmp_fallback_reset(l, j) == 0

\* j = lps[j - 1]
kmp_fallback(l, j) == l[j - 1 + 1]

kmp_match_end(i, j) == i

\* return i - j
kmp_match_index(i, j) == i - j

(***************************************************************************)
(* float_binary_search                                                     *)
(***************************************************************************)
strictly_greater(a, q) == a > q

\* arr[mid] >= x
at_least(a, q) == a >= q

IsSorted(a) == \A k \in 1..(Len(a) - 1) : a[k] <= a[k + 1]

(***************************************************************************)
(* Initial states: one call of analyze_search_algorithms' inner loop on a  *)
(* (text, pattern) pair, a call of compute_lps, or a call of               *)
(* float_binary_search.                                                    *)
(***************************************************************************)
Idle ==
    /\ fault = "none"
    /\ ret = [a \in algorithms |-> <<>>]
    /\ shift_table = EmptyDict /\ bm_i = 0
    /\ lps = <<>> /\ length = 0 /\ lps_i = 0
    /\ kmp_i = 0 /\ kmp_j = 0
    /\ substring_hash = 0 /\ current_slice_hash = 0 /\ h_multiplier = 0 /\ rk_i = 0
    /\ low = 0 /\ high = 0 /\ iterations = 0 /\ upper_bound = <<>>

InitAnalyze(maxText, maxPat) ==
    /\ entry = "analyze_search_algorithms"
    /\ pc = "boyer_moore_search"
    /\ \/ /\ text \in SeqsUpTo(Alphabet, maxText)
          /\ pattern \in SeqsUpTo(Alphabet, maxPat)
       \/ /\ text = ScenarioText
          /\ pattern = ScenarioPattern
    /\ arr = <<>> /\ x = 0
    /\ Idle

InitLps ==
    /\ entry = "compute_lps"
    /\ pc = "compute_lps"
    /\ text = <<>>
    /\ pattern \in SeqsUpTo(LpsAlphabet, MaxLpsLen)
    /\ arr = <<>> /\ x = 0
    /\ Idle

InitBinarySearch ==
    /\ entry = "float_binary_search"
    /\ pc = "float_binary_search"
    /\ text = <<>> /\ pattern = <<>>
    /\ arr \in {a \in SeqsUpTo(0..MaxVal, MaxArrLen) : IsSorted(a)}
    /\ x \in 0..(MaxVal + 1)
    /\ Idle

Init == InitAnalyze(MaxTextLen, MaxPatLen) \/ InitLps \/ InitBinarySearch

\* the same calls on the shorter inputs of the fair specification
InitFair == InitAnalyze(MaxFairTextLen, MaxFairPatLen) \/ InitLps \/ InitBinarySearch

(***************************************************************************)
(* analyze_search_algorithms calls the three matchers in the order of its  *)
(* algorithms dict; an exception of a matcher propagates out of it.        *)
(***************************************************************************)
Return(alg, value, next) ==
    /\ ret' = [ret EXCEPT ![alg] = <<value>>]
    /\ pc' = next

\* lines 23-29 of boyer_moore_search
BoyerMooreEntry ==
    /\ pc = "boyer_moore_search"
    /\ IF pattern = <<>> \/ text = <<>>
       THEN /\ Return("boyer_moore", -1, "kmp_search")
            /\ UNCHANGED bm_vars
       ELSE /\ shift_table' = build_shift_table(pattern)
            /\ bm_i' = 0
            /\ pc' = "bm_while"
            /\ UNCHANGED ret
    /\ UNCHANGED <<entry, fault, text, pattern, lps_vars, kmp_vars, rk_vars, bs_vars>>

\* one iteration of the outer while, lines 31-39
BoyerMooreIteration ==
    /\ pc = "bm_while"
    /\ bm_i <= Len(text) - Len(pattern)
    /\ LET j == bm_scan(text, pattern, bm_i, Len(pattern) - 1)
       IN  IF j < 0
           THEN /\ Return("boyer_moore", bm_i, "kmp_search")
                /\ UNCHANGED bm_i
           ELSE /\ bm_i' = bm_i + bm_shift(shift_table, text, pattern, bm_i)
                /\ UNCHANGED <<ret, pc>>
    /\ UNCHANGED <<entry, fault, text, pattern, shift_table,
                   lps_vars, kmp_vars, rk_vars, bs_vars>>

\* the while condition fails, line 40
BoyerMooreNotFound ==
    /\ pc = "bm_while"
    /\ ~(bm_i <= Len(text) - Len(pattern))
    /\ Return("boyer_moore", -1, "kmp_search")
    /\ UNCHANGED <<entry, fault, text, pattern, bm_vars,
                   lps_vars, kmp_vars, rk_vars, bs_vars>>

\* lines 70-73: kmp_search calls compute_lps
KmpEntry ==
    /\ pc = "kmp_search"
    /\ pc' = "compute_lps"
    /\ UNCHANGED <<entry, fault, text, pattern, ret, bm_vars,
                   lps_vars, kmp_vars, rk_vars, bs_vars>>

\* lines 47-49
ComputeLpsEntry ==
    /\ pc = "compute_lps"
    /\ lps' = [k \in 1..Len(pattern) |-> 0]
    /\ length' = 0
    /\ lps_i' = 1
    /\ pc' = "lps_while"
    /\ UNCHANGED <<entry, fault, text, pattern, ret, bm_vars,
                   kmp_vars, rk_vars, bs_vars>>

\* one iteration of the while of compute_lps, lines 51-61
ComputeLpsIteration ==
    /\ pc = "lps_while"
    /\ lps_i < Len(pattern)
    /\ IF pattern[lps_i + 1] = pattern[length + 1]
       THEN /\ length' = length + 1
            /\ lps' = [lps EXCEPT ![lps_i + 1] = length + 1]
            /\ lps_i' = lps_i + 1
       ELSE IF length # 0
            THEN /\ length' = lps_fallback(lps, length)
                 /\ UNCHANGED <<lps, lps_i>>
            ELSE /\ lps' = [lps EXCEPT ![lps_i + 1] = 0]
                 /\ lps_i' = lps_i + 1
                 /\ UNCHANGED length
    /\ UNCHANGED <<entry, pc, fault, text, pattern, ret, bm_vars,
                   kmp_vars, rk_vars, bs_vars>>

\* line 63, and lines 75-76 of the caller kmp_search
ComputeLpsReturn ==
    /\ pc = "lps_while"
    /\ ~(lps_i < Len(pattern))
    /\ IF entry = "compute_lps"
       THEN /\ pc' = "done"
            /\ UNCHANGED kmp_vars
       ELSE /\ pc' = "kmp_while"
            /\ kmp_i' = 0
            /\ kmp_j' = 0
    /\ UNCHANGED <<entry, fault, text, pattern, ret, bm_vars,
                   lps_vars, rk_vars, bs_vars>>

\* one iteration of the while of kmp_search, lines 78-88; pattern[j] with
\* j = len(pattern) raises IndexError
KmpIteration ==
    /\ pc = "kmp_while"
    /\ kmp_i < Len(text)
    /\ IF kmp_j >= Len(pattern)
       THEN /\ fault' = "IndexError"
            /\ pc' = "aborted"
            /\ UNCHANGED <<ret, kmp_vars>>
       ELSE LET step ==
                    IF pattern[kmp_j + 1] = text[kmp_i + 1]
                    THEN <<kmp_i + 1, kmp_j + 1>>
                    ELSE IF kmp_j # 0
                         THEN <<kmp_i, kmp_fallback(lps, kmp_j)>>
                         ELSE <<kmp_i + 1, kmp_j>>
            IN  /\ kmp_i' = step[1]
                /\ kmp_j' = step[2]
                /\ IF step[2] = Len(pattern)
                   THEN Return("kmp", kmp_match_index(step[1], step[2]),
                               "rabin_karp_search")
                   ELSE UNCHANGED <<ret, pc>>
                /\ UNCHANGED fault
    /\ UNCHANGED <<entry, text, pattern, bm_vars, lps_vars, rk_vars, bs_vars>>

\* the while condition fails, line 90
KmpNotFound ==
    /\ pc = "kmp_while"
    /\ ~(kmp_i < Len(text))
    /\ Return("kmp", -1, "rabin_karp_search")
    /\ UNCHANGED <<entry, fault, text, pattern, bm_vars,
                   lps_vars, kmp_vars, rk_vars, bs_vars>>

\* lines 109-125 of rabin_karp_search
RabinKarpEntry ==
    /\ pc = "rabin_karp_search"
    /\ IF Len(pattern) = 0 \/ Len(text) = 0 \/ Len(pattern) > Len(text)
       THEN /\ Return("rabin_karp", -1, "done")
            /\ UNCHANGED rk_vars
       ELSE /\ substring_hash' = polynomial_hash(pattern, base, modulus)
            /\ current_slice_hash' =
                   polynomial_hash(SubSeq(text, 1, Len(pattern)), base, modulus)
            /\ h_multiplier' = pow_mod(base, Len(pattern) - 1, modulus)
            /\ rk_i' = 0
            /\ pc' = "rk_for"
            /\ UNCHANGED ret
    /\ UNCHANGED <<entry, fault, text, pattern, bm_vars, lps_vars, kmp_vars, bs_vars>>

\* one iteration of the for of rabin_karp_search, lines 127-140
RabinKarpIteration ==
    /\ pc = "rk_for"
    /\ rk_i < Len(text) - Len(pattern) + 1
    /\ IF substring_hash = current_slice_hash /\ slice_equals(text, rk_i, pattern)
       THEN /\ Return("rabin_karp", rk_i, "done")
            /\ UNCHANGED <<current_slice_hash, rk_i>>
       ELSE /\ current_slice_hash' =
                   IF rk_i < Len(text) - Len(pattern)
                   THEN roll_hash(current_slice_hash, text[rk_i + 1],
                                  text[rk_i + Len(pattern) + 1], h_multiplier)
                   ELSE current_slice_hash
            /\ rk_i' = rk_i + 1
            /\ UNCHANGED <<ret, pc>>
    /\ UNCHANGED <<entry, fault, text, pattern, substring_hash, h_multiplier,
                   bm_vars, lps_vars, kmp_vars, bs_vars>>

\* the range is exhausted, line 142
RabinKarpNotFound ==
    /\ pc = "rk_for"
    /\ ~(rk_i < Len(text) - Len(pattern) + 1)
    /\ Return("rabin_karp", -1, "done")
    /\ UNCHANGED <<entry, fault, text, pattern, bm_vars,
                   lps_vars, kmp_vars, rk_vars, bs_vars>>

\* lines 5-8 of float_binary_search
BinarySearchEntry ==
    /\ pc = "float_binary_search"
    /\ low' = 0
    /\ high' = Len(arr) - 1
    /\ iterations' = 0
    /\ upper_bound' = <<>>
    /\ pc' = "bs_while"
    /\ UNCHANGED <<entry, fault, text, pattern, ret, arr, x,
                   bm_vars, lps_vars, kmp_vars, rk_vars>>

\* one iteration of the while of float_binary_search, lines 10-18
BinarySearchIteration ==
    /\ pc = "bs_while"
    /\ low <= high
    /\ iterations' = iterations + 1
    /\ LET mid == (low + high) \div 2
       IN  IF at_least(arr[mid + 1], x)
           THEN /\ upper_bound' = <<arr[mid + 1]>>
                /\ high' = mid - 1
                /\ UNCHANGED low
           ELSE /\ low' = mid + 1
                /\ UNCHANGED <<high, upper_bound>>
    /\ UNCHANGED <<entry, pc, fault, text, pattern, ret, arr, x,
                   bm_vars, lps_vars, kmp_vars, rk_vars>>

\* line 20
BinarySearchReturn ==
    /\ pc = "bs_while"
    /\ ~(low <= high)
    /\ pc' = "done"
    /\ UNCHANGED <<entry, fault, text, pattern, ret, bs_vars,
                   bm_vars, lps_vars, kmp_vars, rk_vars>>

Next ==
    \/ BoyerMooreEntry
    \/ BoyerMooreIteration
    \/ BoyerMooreNotFound
    \/ KmpEntry
    \/ ComputeLpsEntry
    \/ ComputeLpsIteration
    \/ ComputeLpsReturn
    \/ KmpIteration
    \/ KmpNotFound
    \/ RabinKarpEntry
    \/ RabinKarpIteration
    \/ RabinKarpNotFound
    \/ BinarySearchEntry
    \/ BinarySearchIteration
    \/ BinarySearchReturn

Spec == Init /\ [][Next]_vars

\* a call that can take a step takes it: the interpreter runs every call on
FairSpec == InitFair /\ [][Next]_vars /\ WF_vars(Next)

TypeOK ==
    /\ pc \in {"boyer_moore_search", "bm_while", "kmp_search", "compute_lps",
               "lps_while", "kmp_while", "rabin_karp_search", "rk_for",
               "float_binary_search", "bs_while", "done", "aborted"}
    /\ fault \in {"none", "IndexError"}
    /\ \A a \in algorithms : Len(ret[a]) <= 1

(***************************************************************************)
(* Reference definitions for the properties.                               *)
(***************************************************************************)
Analyze == entry = "analyze_search_algorithms"

Window(txt, k, m) == SubSeq(txt, k + 1, k + m)

Occurs(txt, pat, k) == k + Len(pat) <= Len(txt) /\ Window(txt, k, Len(pat)) = pat

Occurrences(txt, pat) == {k \in 0..(Len(txt) - Len(pat)) : Occurs(txt, pat, k)}

Min(S) == CHOOSE k \in S : \A k2 \in S : k <= k2

FirstMatch(txt, pat) ==
    IF Occurrences(txt, pat) = {} THEN -1 ELSE Min(Occurrences(txt, pat))

Units(s) == {s[k] : k \in DOMAIN s}

\* lengths of the proper prefixes of pat[0..i] that are also its suffixes
Borders(pat, i) ==
    {n \in 0..i : SubSeq(pat, 1, n) = SubSeq(pat, i + 1 - n + 1, i + 1)}

LongestBorder(pat, i) == CHOOSE n \in Borders(pat, i) : \A n2 \in Borders(pat, i) : n2 <= n

RECURSIVE floor_log2(_)
floor_log2(n) == IF n <= 1 THEN 0 ELSE 1 + floor_log2(n \div 2)

\* C1: for a non-empty pattern and any text the three matchers end without a
\* fault and return the same value, the first-match index or -1 for all.
C1_Agreement ==
    (Analyze /\ pattern # <<>>) =>
        /\ fault = "none"
        /\ pc = "done" =>
              /\ ret["boyer_moore"] = ret["kmp"]
              /\ ret["kmp"] = ret["rabin_karp"]
              /\ Len(ret["kmp"]) = 1
              /\ ret["kmp"][1] \in -1..(Len(text) - 1)

C1_Witness ==
    /\ Analyze /\ pc = "done" /\ pattern # <<>>
    /\ \E k \in 1..Len(text) : \A a \in algorithms : ret[a] = <<k>>

\* C2: with an empty pattern, an empty text or a pattern longer than the
\* text, no matcher faults and every matcher that has returned returned -1.
C2_SentinelNoFault ==
    (Analyze /\ (pattern = <<>> \/ text = <<>> \/ Len(pattern) > Len(text))) =>
        /\ fault = "none"
        /\ \A a \in algorithms : ret[a] \in {<<>>, <<-1>>}

\* C3: for a non-empty text and pattern boyer_moore_search returns the
\* brute-force first match (or -1), and no alignment the search has passed
\* holds an occurrence of the pattern.
C3_BoyerMooreBruteForce ==
    (Analyze /\ text # <<>> /\ pattern # <<>>) =>
        /\ ret["boyer_moore"] # <<>> =>
               ret["boyer_moore"] = <<FirstMatch(text, pattern)>>
        /\ pc = "bm_while" =>
               \A k \in 0..(bm_i - 1) : ~Occurs(text, pattern, k)

C3_Witness ==
    /\ Analyze /\ Len(pattern) >= 2
    /\ \E k \in 2..Len(text) : ret["boyer_moore"] = <<k>>
    /\ pattern[Len(pattern)] \in Units(SubSeq(pattern, 1, Len(pattern) - 1))

\* C4: at the start of every iteration i of the for loop of
\* rabin_karp_search the rolled hash equals polynomial_hash of the window
\* text[i : i + len(pattern)] and lies in 0..100.
C4_RollingHash ==
    (pc = "rk_for" /\ rk_i <= Len(text) - Len(pattern)) =>
        /\ current_slice_hash =
               polynomial_hash(Window(text, rk_i, Len(pattern)), 256, 101)
        /\ current_slice_hash \in 0..100

C4_Witness ==
    /\ pc = "rk_for" /\ rk_i >= 2 /\ rk_i <= Len(text) - Len(pattern)
    /\ Len(pattern) >= 2
    /\ Cardinality(Units(text)) >= 2

\* C5: for a non-empty pattern the array compute_lps returns holds at every
\* position i the length of the longest proper prefix of pattern[0..i] that
\* is also a suffix of it.
C5_LpsBruteForce ==
    (pattern # <<>> /\ pc = "lps_while" /\ ~(lps_i < Len(pattern))) =>
        /\ Len(lps) = Len(pattern)
        /\ \A i \in 0..(Len(pattern) - 1) : lps[i + 1] = LongestBorder(pattern, i)

C5_Witness ==
    /\ pc = "lps_while" /\ ~(lps_i < Len(pattern))
    /\ pattern = <<"a", "a", "o", "a", "a", "a">>
    /\ lps = <<0, 1, 0, 1, 2, 2>>

\* C6 as stated: kmp_search("ABABDABACDABABCABAB", "ABABCABAB") returns 15.
C6_Returns15 ==
    (text = ScenarioText /\ pattern = ScenarioPattern /\ ret["kmp"] # <<>>) =>
        ret["kmp"] = <<15>>

\* C6: kmp_search("ABABDABACDABABCABAB", "ABABCABAB") returns 10, the first
\* (and only) index at which the pattern occurs.
C6_Returns10 ==
    (text = ScenarioText /\ pattern = ScenarioPattern /\ ret["kmp"] # <<>>) =>
        /\ ret["kmp"] = <<10>>
        /\ Occurrences(text, pattern) = {10}

C6_Witness ==
    /\ text = ScenarioText /\ pattern = ScenarioPattern
    /\ ret["kmp"] # <<>> /\ fault = "none"

\* C7: for a non-empty pattern every call returns: each Boyer-Moore outer
\* iteration that continues increases i, each iteration of compute_lps and
\* of kmp_search that continues advances i or keeps i and decreases the
\* pattern cursor, and the run reaches its end with every matcher returned.
C7_Termination ==
    /\ [][(pc = "bm_while" /\ pc' = "bm_while") => bm_i' > bm_i]_vars
    /\ [][(pc = "lps_while" /\ pc' = "lps_while" /\ pattern # <<>>) =>
             \/ lps_i' > lps_i
             \/ lps_i' = lps_i /\ length' < length /\ length' >= 0]_vars
    /\ [][(pc = "kmp_while" /\ pc' = "kmp_while" /\ pattern # <<>>) =>
             \/ kmp_i' > kmp_i
             \/ kmp_i' = kmp_i /\ kmp_j' < kmp_j /\ kmp_j' >= 0]_vars
    /\ (pattern # <<>>) ~>
           (pc = "done" /\ (Analyze => \A a \in algorithms : ret[a] # <<>>))

C7_Witness ==
    /\ Analyze /\ pc = "done" /\ pattern # <<>>
    /\ Len(text) > Len(pattern)
    /\ ret["boyer_moore"] = <<-1>> /\ bm_i > Len(text) - Len(pattern)
    /\ kmp_i = Len(text) /\ kmp_j > 0

\* C8: an index rabin_karp_search returns is the smallest window position
\* whose content equals the pattern unit for unit.
C8_VerifiedMatch ==
    \A k \in 0..Len(text) :
        ret["rabin_karp"] = <<k>> =>
            /\ Window(text, k, Len(pattern)) = pattern
            /\ \A k2 \in 0..(k - 1) : Window(text, k2, Len(pattern)) # pattern

\* a match returned after a window with the pattern's hash and other content
C8_Witness ==
    \E k \in 1..Len(text) :
        /\ ret["rabin_karp"] = <<k>>
        /\ \E k2 \in 0..(k - 1) :
              /\ Window(text, k2, Len(pattern)) # pattern
              /\ polynomial_hash(Window(text, k2, Len(pattern)), 256, 101) =
                     polynomial_hash(pattern, 256, 101)

\* C9: for a pattern of length L >= 1 the keys of the shift table are the
\* distinct units of the pattern; a unit of pattern[0..L-2] maps to L - 1 -
\* (its last index in pattern[0..L-2]); the final unit maps to L exactly when
\* it does not occur in pattern[0..L-2]; every value is in 1..L.
C9_ShiftTable ==
    (pc = "bm_while") =>
        LET L == Len(pattern)
            LastIndex(c) == CHOOSE k \in 0..(L - 2) :
                                /\ pattern[k + 1] = c
                                /\ \A k2 \in (k + 1)..(L - 2) : pattern[k2 + 1] # c
        IN  /\ L >= 1
            /\ DOMAIN shift_table = Units(pattern)
            /\ \A c \in Units(SubSeq(pattern, 1, L - 1)) :
                   shift_table[c] = L - 1 - LastIndex(c)
            /\ (shift_table[pattern[L]] = L) <=>
                   (pattern[L] \notin Units(SubSeq(pattern, 1, L - 1)))
            /\ \A c \in DOMAIN shift_table : shift_table[c] \in 1..L

C9_Witness ==
    /\ pc = "bm_while" /\ Len(pattern) = 3
    /\ pattern[3] = pattern[1] /\ pattern[2] # pattern[1]
    /\ shift_table[pattern[3]] = 2

\* C10: for a sorted array float_binary_search returns the smallest element
\* >= x, or None when there is none, after 0 iterations on an empty array and
\* at most floor(log2(len(arr))) + 1 iterations otherwise; low and high stay
\* around the answer while it runs.
C10_BinarySearch ==
    LET AtLeast == {k \in 1..Len(arr) : arr[k] >= x}
    IN  /\ (entry = "float_binary_search" /\ pc = "done") =>
               /\ upper_bound = IF AtLeast = {} THEN <<>> ELSE <<arr[Min(AtLeast)]>>
               /\ Len(arr) = 0 => iterations = 0
               /\ Len(arr) > 0 => iterations \in 1..(floor_log2(Len(arr)) + 1)
        /\ (pc = "bs_while") => iterations <= floor_log2(Len(arr)) + 1

C10_Witness ==
    /\ entry = "float_binary_search" /\ pc = "done"
    /\ Len(arr) = 4 /\ iterations = 3
    /\ upper_bound = <<arr[4]>> /\ arr[3] < x /\ x < arr[4]

====
